---- MODULE Spec2Model ----
(***************************************************************************)
(* Edge detection with ant colony optimisation (Edge_Detection.py).        *)
(* The model follows class Colony and its inner class Ant: the colony is   *)
(* built (fields initialised, ants placed by rejection sampling), then     *)
(* iterate() runs every ant's deposit_pheromone() in creation order and    *)
(* adjust_pheromone() once per iteration.                                  *)
(*                                                                         *)
(* Reals are fixed-point integers: the real value v is the integer         *)
(* v * Scale.  Scale is a multiple of PDen^(MaxIter+1), so that the        *)
(* evaporation (1 - p) * x is computed without rounding during the         *)
(* iterations of a run.  A probability x / denominator is the fraction     *)
(* <<x, denominator>>, compared by cross-multiplication; 0/0 is NaN.       *)
(***************************************************************************)
EXTENDS Integers, Sequences, FiniteSets, TLC

VARIABLES
    img,            \* self.img: the input grid, a tuple of rows of samples
    intensities,    \* self.intensities: cell -> intensity
    pheromone,      \* self.pheromone: cell -> (layer 0..m -> value); layer m is [-1]
    m,              \* self.m: number of memory layers
    ant_mem,        \* self.ant_mem: capacity of an ant's pos_memory
    b,              \* self.b: intensity threshold
    memory_index,   \* self.memory_index
    ants,           \* self.ants: sequence of [row, col, pos_memory]
    ant_count,      \* argument ant_count of Colony.__init__
    pairs,          \* local set `pairs` of Colony.__init__
    iterations,     \* argument of iterate()
    i,              \* loop variable of iterate(): iterations completed
    k,              \* position in `for ant in self.ants`: ants stepped in this iteration
    pc,             \* control point: "construct", "head", "ants", "done"
    branch,         \* the branch the latest deposit_pheromone() call returned from
    snapshots,      \* calls of generate_pheromone_image: [iteration, total]
    recent          \* per ant: the coordinates update_memory() was called with, most
                    \* recent last, each once, cut to the ant_mem most recent ones

vars == <<img, intensities, pheromone, m, ant_mem, b, memory_index, ants,
          ant_count, pairs, iterations, i, k, pc, branch, snapshots, recent>>

(***************************************************************************)
(* Bounds of the model.                                                    *)
(***************************************************************************)
MaxIter == 4
MaxAnts == 2
MaxSteps == 4
MaxM == 2
MaxAntMem == 2

(***************************************************************************)
(* Configuration values.                                                   *)
(***************************************************************************)
alpha == 1
beta == 1
PNum == 1
PDen == 2
SnapshotPeriod == 10

Scale == 2 * PDen ^ (MaxIter + 1)
tau_min == PDen ^ MaxIter
BValues == {0, (3 * Scale) \div 4}

None == <<>>
NaN == <<0, 0>>

directions ==
    << <<-1, 0>>, <<-1, 1>>, <<0, 1>>, <<1, 1>>,
       <<1, 0>>, <<1, -1>>, <<0, -1>>, <<-1, -1>> >>

Images ==
    { << <<1>> >>,
      << <<2, 2>>, <<2, 2>> >>,
      << <<0, 0, 2, 1, 0>> >> }

(***************************************************************************)
(* Helpers.                                                                *)
(***************************************************************************)
Range(s) == {s[j] : j \in 1..Len(s)}

Abs(x) == IF x < 0 THEN -x ELSE x

MaxOf(S) == CHOOSE x \in S : \A y \in S : y <= x

RECURSIVE SumSeq(_)
SumSeq(s) == IF s = <<>> THEN 0 ELSE Head(s) + SumSeq(Tail(s))

RECURSIVE Perms(_)
Perms(S) ==
    IF S = {} THEN {<<>>}
    ELSE UNION {{<<x>> \o q : q \in Perms(S \ {x})} : x \in S}

\* Faulty variant of randrange: the upper end is included.
randrange_inclusive(n) == 0..n

\* random.randrange(n)
randrange(n) == 0..(n - 1)

Rows(im) == Len(im)
Cols(im) == Len(im[1])
Cells(im) == (0..(Rows(im) - 1)) \X (0..(Cols(im) - 1))
Pixel(im, row, col) == im[row + 1][col + 1]

(***************************************************************************)
(* Intensities.                                                            *)
(***************************************************************************)
i_max(im) == MaxOf({Pixel(im, c[1], c[2]) : c \in Cells(im)})

\* Faulty variant of pixel_intensity: the lower bounds row - 1 >= 0 and
\* col - 1 >= 0 are not tested, and the index -1 reads the last row or column.
pixel_intensity_wrap(im, row, col) ==
    LET at(r, c) == im[((r + Rows(im)) % Rows(im)) + 1][((c + Cols(im)) % Cols(im)) + 1]
        diag == row + 1 < Rows(im) /\ col + 1 < Cols(im)
        d1 == IF diag
              THEN Abs(at(row - 1, col - 1) - at(row + 1, col + 1))
              ELSE 0
        d2 == IF diag
              THEN Abs(at(row - 1, col + 1) - at(row + 1, col - 1))
              ELSE 0
        d3 == IF col + 1 < Cols(im)
              THEN Abs(at(row, col - 1) - at(row, col + 1))
              ELSE 0
        d4 == IF row + 1 < Rows(im)
              THEN Abs(at(row - 1, col) - at(row + 1, col))
              ELSE 0
    IN  (Scale \div i_max(im)) * MaxOf({d1, d2, d3, d4})

pixel_intensity(im, row, col) ==
    LET diag == row - 1 >= 0 /\ col - 1 >= 0
                /\ row + 1 < Rows(im) /\ col + 1 < Cols(im)
        d1 == IF diag
              THEN Abs(Pixel(im, row - 1, col - 1) - Pixel(im, row + 1, col + 1))
              ELSE 0
        d2 == IF diag
              THEN Abs(Pixel(im, row - 1, col + 1) - Pixel(im, row + 1, col - 1))
              ELSE 0
        d3 == IF col - 1 >= 0 /\ col + 1 < Cols(im)
              THEN Abs(Pixel(im, row, col - 1) - Pixel(im, row, col + 1))
              ELSE 0
        d4 == IF row - 1 >= 0 /\ row + 1 < Rows(im)
              THEN Abs(Pixel(im, row - 1, col) - Pixel(im, row + 1, col))
              ELSE 0
    IN  (Scale \div i_max(im)) * MaxOf({d1, d2, d3, d4})

set_pixel_intensities(im) ==
    [c \in Cells(im) |-> pixel_intensity(im, c[1], c[2])]

(***************************************************************************)
(* Ant.                                                                    *)
(***************************************************************************)
Ant(row, col) == [row |-> row, col |-> col, pos_memory |-> <<>>]

\* Faulty variant of index_probability: the deposits of the running iteration
\* are read with the total.
index_probability_live(index) ==
    ((pheromone[index][m] + pheromone[index][memory_index]) ^ alpha)
        * (intensities[index] ^ beta)

index_probability(index) ==
    (pheromone[index][m] ^ alpha) * (intensities[index] ^ beta)

InBounds(x, y) ==
    ~(x < 0 \/ x >= Rows(img) \/ y < 0 \/ y >= Cols(img))

\* random.sample(directions, 8): every order of the eight directions.  The
\* directions that leave the grid are skipped by the loop, so their place in
\* the order has no effect and they are kept last, in compass order.
random_sample(row, col) ==
    LET inside == {j \in 1..Len(directions) :
                      InBounds(row + directions[j][1], col + directions[j][2])}
        outside == SelectSeq(directions,
                      LAMBDA d : ~InBounds(row + d[1], col + d[2]))
    IN  {[j \in 1..Len(q) |-> directions[q[j]]] \o outside : q \in Perms(inside)}

\* The positions appended by the loop, in the order of the sample.
get_index_probabilities(row, col, sample) ==
    LET kept == SelectSeq(sample, LAMBDA d : InBounds(row + d[1], col + d[2]))
        positions == [j \in 1..Len(kept) |-> <<row + kept[j][1], col + kept[j][2]>>]
        numerators == [j \in 1..Len(kept) |-> index_probability(positions[j])]
    IN  <<numerators, positions>>

\* x / denominator on numpy floats: 0/0 is nan (a warning, no exception).
Divide(x, denominator) == IF denominator = 0 THEN NaN ELSE <<x, denominator>>

IsNaN(p) == p[2] = 0
KeyEq(p, q) == ~IsNaN(p) /\ ~IsNaN(q) /\ p[1] * q[2] = q[1] * p[2]
KeyLess(p, q) == ~IsNaN(p) /\ ~IsNaN(q) /\ p[1] * q[2] < q[1] * p[2]

\* dict(zip(keys, values)): entries in insertion order; a key equal to an
\* earlier one keeps its place and takes the later value.
RECURSIVE dict_zip(_, _, _)
dict_zip(keys, values, d) ==
    IF keys = <<>> THEN d
    ELSE LET same == {j \in 1..Len(d) : KeyEq(d[j][1], Head(keys))}
         IN  dict_zip(Tail(keys), Tail(values),
                 IF same # {}
                 THEN [j \in 1..Len(d) |->
                          IF j \in same THEN <<d[j][1], Head(values)>> ELSE d[j]]
                 ELSE Append(d, <<Head(keys), Head(values)>>))

\* keys.sort(reverse=True): stable; entries whose comparisons are all false
\* (nan) keep their order.
RECURSIVE sort_reverse(_)
sort_reverse(d) ==
    IF d = <<>> THEN <<>>
    ELSE LET top == {j \in 1..Len(d) :
                        \A l \in 1..Len(d) : ~KeyLess(d[j][1], d[l][1])}
             j == CHOOSE x \in top : \A y \in top : x <= y
         IN  <<d[j]>> \o sort_reverse(SubSeq(d, 1, j - 1) \o SubSeq(d, j + 1, Len(d)))

max(probabilities_to_pos, pos_memory) ==
    LET keys == sort_reverse(probabilities_to_pos)
        free == {j \in 1..Len(keys) : keys[j][2] \notin Range(pos_memory)}
    IN  IF free = {} THEN None
        ELSE keys[CHOOSE x \in free : \A y \in free : x <= y][2]

get_max_probability_pos(row, col, pos_memory, sample) ==
    LET np == get_index_probabilities(row, col, sample)
        numerators == np[1]
        positions == np[2]
        denominator == SumSeq(numerators)
        probabilities == [j \in 1..Len(numerators) |->
                             Divide(numerators[j], denominator)]
        pos_dict == dict_zip(probabilities, positions, <<>>)
    IN  max(pos_dict, pos_memory)

\* Faulty variant of update_memory: the eviction starts one entry too late.
update_memory_late(pos_memory, row, col) ==
    LET put == IF <<row, col>> \in Range(pos_memory)
               THEN pos_memory
               ELSE Append(pos_memory, <<row, col>>)
    IN  IF Len(put) > ant_mem + 1 THEN Tail(put) ELSE put

\* Faulty variant of update_memory: a coordinate recorded again moves to the
\* newest end.
update_memory_refresh(pos_memory, row, col) ==
    LET put == Append(SelectSeq(pos_memory, LAMBDA q : q # <<row, col>>),
                      <<row, col>>)
    IN  IF Len(put) > ant_mem THEN Tail(put) ELSE put

update_memory(pos_memory, row, col) ==
    LET put == IF <<row, col>> \in Range(pos_memory)
               THEN pos_memory
               ELSE Append(pos_memory, <<row, col>>)
    IN  IF Len(put) > ant_mem THEN Tail(put) ELSE put

(***************************************************************************)
(* Colony.__init__: the state when the placement loop starts.              *)
(***************************************************************************)
Init ==
    /\ img \in Images
    /\ intensities = set_pixel_intensities(img)
    /\ m \in 1..MaxM
    /\ ant_mem \in 0..MaxAntMem
    /\ b \in BValues
    /\ ant_count \in 0..MaxAnts
    /\ iterations \in 0..MaxIter
    /\ ant_count * iterations <= MaxSteps
    /\ pheromone = [c \in Cells(img) |-> [l \in 0..m |-> IF l = m THEN tau_min ELSE 0]]
    /\ memory_index = 0
    /\ ants = <<>>
    /\ pairs = {}
    /\ i = 0
    /\ k = 0
    /\ pc = IF ant_count = 0 THEN "head" ELSE "construct"
    /\ branch = "none"
    /\ snapshots = <<>>
    /\ recent = <<>>

\* One pass of the `while (True)` loop of Colony.__init__ for the next ant:
\* a drawn pair that is already taken is rejected and the loop draws again.
place_ant ==
    /\ pc = "construct"
    /\ Len(ants) < ant_count
    /\ \E pair \in randrange(Rows(img)) \X randrange(Cols(img)) :
          IF pair \notin pairs
          THEN /\ ants' = Append(ants, Ant(pair[1], pair[2]))
               /\ recent' = Append(recent, <<>>)
               /\ pairs' = IF Len(ants) + 1 = ant_count THEN {} ELSE pairs \cup {pair}
               /\ pc' = IF Len(ants) + 1 = ant_count THEN "head" ELSE "construct"
          ELSE UNCHANGED <<ants, recent, pairs, pc>>
    /\ UNCHANGED <<img, intensities, pheromone, m, ant_mem, b, memory_index,
                   ant_count, iterations, i, k, branch, snapshots>>

\* generate_pheromone_image(iteration): the total layer handed to the writer.
generate_pheromone_image(iteration) ==
    [iteration |-> iteration, total |-> [c \in Cells(img) |-> pheromone[c][m]]]

\* Faulty variant of MoreIterations: the loop runs once more.
MoreIterationsInclusive == i <= iterations

\* `for i in range(iterations)`: the loop has a next value.
MoreIterations == i < iterations

\* Head of `for i in range(iterations)` with the export of every tenth
\* iteration, and the end of iterate().
iterate_head ==
    /\ pc = "head"
    /\ IF MoreIterations
       THEN /\ snapshots' = IF (i + 1) % SnapshotPeriod = 0
                            THEN Append(snapshots, generate_pheromone_image(i + 1))
                            ELSE snapshots
            /\ pc' = "ants"
            /\ k' = 0
       ELSE /\ pc' = "done"
            /\ UNCHANGED <<snapshots, k>>
    /\ UNCHANGED <<img, intensities, pheromone, m, ant_mem, b, memory_index, ants,
                   ant_count, pairs, iterations, i, branch, recent>>

\* The sum of the candidate weights of the ant at (row, col); the order of the
\* sample does not change it.
denominator_at(row, col) ==
    SumSeq(get_index_probabilities(row, col, directions)[1])

\* Faulty variant of threshold_reached: the threshold is not applied.
threshold_ignored(pos) == intensities[pos] >= 0

\* self.colony.intensities[row, col] >= self.colony.b
threshold_reached(pos) == intensities[pos] >= b

\* The ant_mem most recently recorded coordinates after one more is recorded.
Record(seen, row, col) ==
    LET put == Append(SelectSeq(seen, LAMBDA q : q # <<row, col>>), <<row, col>>)
    IN  IF Len(put) > ant_mem THEN Tail(put) ELSE put

\* Faulty variant of Deposit: the intensity is added to the cell.
DepositAccumulate(pos) ==
    [pheromone EXCEPT ![pos][memory_index] = @ + intensities[pos]]

\* Faulty variant of Deposit: the intensity is written to the total layer too.
DepositIntoTotal(pos) ==
    [pheromone EXCEPT ![pos] = [[@ EXCEPT ![memory_index] = intensities[pos]]
                                   EXCEPT ![m] = intensities[pos]]]

\* self.colony.pheromone[row, col, memory_index] = self.colony.intensities[row, col]
Deposit(pos) ==
    [pheromone EXCEPT ![pos][memory_index] = intensities[pos]]

\* Ant.deposit_pheromone() of the next ant of `for ant in self.ants`.
deposit_pheromone ==
    /\ pc = "ants"
    /\ k < Len(ants)
    /\ LET a == k + 1
           row == ants[a].row
           col == ants[a].col
           memory == update_memory(ants[a].pos_memory, row, col)
       IN  /\ recent' = [recent EXCEPT ![a] = Record(@, row, col)]
           /\ \E sample \in random_sample(row, col) :
                 LET pos == get_max_probability_pos(row, col, memory, sample)
                 IN  IF pos = None
                     THEN /\ \E r \in randrange(Rows(img)), c \in randrange(Cols(img)) :
                                ants' = [ants EXCEPT ![a] =
                                    [row |-> r, col |-> c, pos_memory |-> memory]]
                          /\ branch' = "relocate_none"
                          /\ UNCHANGED pheromone
                     ELSE IF threshold_reached(pos)
                     THEN /\ ants' = [ants EXCEPT ![a] =
                                [row |-> pos[1], col |-> pos[2], pos_memory |-> memory]]
                          /\ pheromone' = Deposit(pos)
                          /\ branch' = "deposit"
                     ELSE /\ \E r \in randrange(Rows(img)), c \in randrange(Cols(img)) :
                                ants' = [ants EXCEPT ![a] =
                                    [row |-> r, col |-> c, pos_memory |-> memory]]
                          /\ branch' = "relocate_low"
                          /\ UNCHANGED pheromone
    /\ k' = k + 1
    /\ UNCHANGED <<img, intensities, m, ant_mem, b, memory_index, ant_count, pairs,
                   iterations, i, pc, snapshots>>

\* (1 - p) * x
Evaporate(x) == ((PDen - PNum) * x) \div PDen

\* Faulty variant of NextMemoryIndex: the wrap-around comes one step late.
NextMemoryIndexLate == IF memory_index >= m THEN 0 ELSE memory_index + 1

NextMemoryIndex == IF memory_index >= m - 1 THEN 0 ELSE memory_index + 1

\* Faulty variant of AdjustCell: the total is not kept at tau_min or above.
AdjustCellNoFloor(cell, index) ==
    LET deltas == [l \in 1..m |-> cell[l - 1]]
        total == Evaporate(cell[m]) + SumSeq(deltas)
    IN  [[cell EXCEPT ![m] = total] EXCEPT ![index] = 0]

\* Faulty variant of AdjustCell: the layer at the new index is zeroed before
\* the memory layers are summed.
AdjustCellZeroFirst(cell, index) ==
    LET zeroed == [cell EXCEPT ![index] = 0]
        deltas == [l \in 1..m |-> zeroed[l - 1]]
        total == MaxOf({Evaporate(cell[m]) + SumSeq(deltas), tau_min})
    IN  [zeroed EXCEPT ![m] = total]

\* Faulty variant of AdjustCell: the layer zeroed is the one at the index the
\* ants deposited into during the iteration, not the one at the advanced index.
AdjustCellZeroCurrent(cell, index) ==
    LET deltas == [l \in 1..m |-> cell[l - 1]]
        total == MaxOf({Evaporate(cell[m]) + SumSeq(deltas), tau_min})
    IN  [[cell EXCEPT ![m] = total] EXCEPT ![memory_index] = 0]

\* Body of the cell loop of adjust_pheromone for one cell, index already advanced.
AdjustCell(cell, index) ==
    LET deltas == [l \in 1..m |-> cell[l - 1]]
        total == MaxOf({Evaporate(cell[m]) + SumSeq(deltas), tau_min})
    IN  [[cell EXCEPT ![m] = total] EXCEPT ![index] = 0]

\* Colony.adjust_pheromone(), called after the last ant of the iteration.
adjust_pheromone ==
    /\ pc = "ants"
    /\ k = Len(ants)
    /\ memory_index' = NextMemoryIndex
    /\ pheromone' = [c \in Cells(img) |-> AdjustCell(pheromone[c], NextMemoryIndex)]
    /\ i' = i + 1
    /\ pc' = "head"
    /\ UNCHANGED <<img, intensities, m, ant_mem, b, ants, ant_count, pairs,
                   iterations, k, branch, snapshots, recent>>

Next ==
    \/ place_ant
    \/ iterate_head
    \/ deposit_pheromone
    \/ adjust_pheromone

Spec == Init /\ [][Next]_vars

(***************************************************************************)
(* A colony of one ant on a grid of two rows with a vertical edge: the     *)
(* cells (0, 1) and (1, 1) have the intensity 1/2, every other cell 0, so  *)
(* that an ant in a corner has three neighbours, two of them of equal      *)
(* weight.                                                                 *)
(***************************************************************************)
EdgeImage == << <<0, 2, 1>>, <<0, 2, 1>> >>

InitEdge ==
    /\ img = EdgeImage
    /\ intensities = set_pixel_intensities(img)
    /\ m = 1
    /\ ant_mem \in 1..MaxAntMem
    /\ b \in BValues
    /\ ant_count = 1
    /\ iterations \in 0..2
    /\ pheromone = [c \in Cells(img) |-> [l \in 0..m |-> IF l = m THEN tau_min ELSE 0]]
    /\ memory_index = 0
    /\ ants = <<>>
    /\ pairs = {}
    /\ i = 0
    /\ k = 0
    /\ pc = "construct"
    /\ branch = "none"
    /\ snapshots = <<>>
    /\ recent = <<>>

SpecEdge == InitEdge /\ [][Next]_vars

(***************************************************************************)
(* Runs long enough to export: at most one ant on a row of three cells     *)
(* whose middle cell has the intensity 1.  Over more than MaxIter          *)
(* iterations the fixed-point evaporation rounds down.                     *)
(***************************************************************************)
MaxRun == 20

RowImage == << <<0, 1, 2>> >>

InitExport ==
    /\ img = RowImage
    /\ intensities = set_pixel_intensities(img)
    /\ m = 1
    /\ ant_mem \in 0..1
    /\ b \in BValues
    /\ ant_count \in 0..1
    /\ iterations \in 0..MaxRun
    /\ pheromone = [c \in Cells(img) |-> [l \in 0..m |-> IF l = m THEN tau_min ELSE 0]]
    /\ memory_index = 0
    /\ ants = <<>>
    /\ pairs = {}
    /\ i = 0
    /\ k = 0
    /\ pc = IF ant_count = 0 THEN "head" ELSE "construct"
    /\ branch = "none"
    /\ snapshots = <<>>
    /\ recent = <<>>

SpecExport == InitExport /\ [][Next]_vars

(***************************************************************************)
(* The intensities of every grid of a few shapes with samples up to        *)
(* MaxSample, not all zero: Colony.__init__ up to set_pixel_intensities(). *)
(***************************************************************************)
MaxSample == 2

Shapes == {<<1, 1>>, <<1, 3>>, <<3, 1>>, <<2, 3>>, <<3, 3>>}

Grids ==
    UNION {{im \in [1..s[1] -> [1..s[2] -> 0..MaxSample]] : i_max(im) > 0} :
              s \in Shapes}

InitIntensities ==
    /\ img \in Grids
    /\ intensities = <<>>
    /\ pheromone = <<>>
    /\ m = 1
    /\ ant_mem = 0
    /\ b = 0
    /\ memory_index = 0
    /\ ants = <<>>
    /\ ant_count = 0
    /\ pairs = {}
    /\ iterations = 0
    /\ i = 0
    /\ k = 0
    /\ pc = "intensities"
    /\ branch = "none"
    /\ snapshots = <<>>
    /\ recent = <<>>

\* self.set_pixel_intensities() in Colony.__init__.
build_intensities ==
    /\ pc = "intensities"
    /\ intensities' = set_pixel_intensities(img)
    /\ pc' = "built"
    /\ UNCHANGED <<img, pheromone, m, ant_mem, b, memory_index, ants, ant_count,
                   pairs, iterations, i, k, branch, snapshots, recent>>

SpecIntensities == InitIntensities /\ [][build_intensities]_vars

(***************************************************************************)
(* Properties.                                                             *)
(***************************************************************************)
TypeOK ==
    /\ pc \in {"intensities", "built", "construct", "head", "ants", "done"}
    /\ branch \in {"none", "relocate_none", "deposit", "relocate_low"}
    /\ k \in 0..Len(ants)
    /\ i \in 0..iterations

\* The fixed-point evaporation is exact: no value is rounded during a run.
ExactEvaporation ==
    \A c \in Cells(img) : pheromone[c][m] % (PDen ^ (MaxIter - i)) = 0

AntIds == 1..Len(ants)

\* C1: in every reachable state every cell of the total layer (the last layer
\* of the pheromone grid) is at least tau_min.
C1_TotalAtLeastTauMin ==
    \A c \in Cells(img) : pheromone[c][m] >= tau_min

\* A state after a consolidation that merged a deposit into one cell and
\* floored another cell at tau_min.
C1_Witness ==
    /\ i >= 1
    /\ Len(ants) >= 1
    /\ \E c \in Cells(img) : pheromone[c][m] > tau_min
    /\ \E c \in Cells(img) : pheromone[c][m] = tau_min

\* C2: with a threshold b > 0, a cell whose intensity is below b never
\* receives a deposit: all its memory layers are 0 and its total is tau_min.
C2_BelowThresholdUntouched ==
    b > 0 =>
        \A c \in Cells(img) :
            intensities[c] < b =>
                /\ \A l \in 0..(m - 1) : pheromone[c][l] = 0
                /\ pheromone[c][m] = tau_min

\* A state where an ant has just been turned away from a candidate of
\* positive intensity below b, after a consolidation that merged a deposit
\* made elsewhere.
C2_Witness ==
    /\ b > 0
    /\ i >= 1
    /\ branch = "relocate_low"
    /\ \E c \in Cells(img) : 0 < intensities[c] /\ intensities[c] < b
    /\ \E c \in Cells(img) : pheromone[c][m] > tau_min

\* C3: the rotating memory index starts at 0, stays in [0, m-1] and is the
\* number of completed iterations modulo m, whatever the ants are and do.
C3_MemoryIndexCycles ==
    /\ memory_index \in 0..(m - 1)
    /\ memory_index = i % m

\* A state where the index has gone round once and advanced again, with ants.
C3_Witness ==
    /\ m >= 2
    /\ i > m
    /\ memory_index = 1
    /\ Len(ants) >= 1

\* C4: the taboo memory of every ant holds at most ant_mem coordinates.
C4_TabooBounded ==
    \A a \in AntIds : Len(ants[a].pos_memory) <= ant_mem

\* A single ant with capacity 1 deposited on a neighbour in the first
\* iteration and has recorded that neighbour in the second: the coordinate it
\* started from was evicted.
C4_Witness ==
    /\ ant_count = 1
    /\ Len(ants) = 1
    /\ ant_mem = 1
    /\ i = 1
    /\ k = 1
    /\ Len(ants[1].pos_memory) = 1
    /\ pheromone[ants[1].pos_memory[1]][m] > tau_min

\* The step of the next ant of the running iteration.
AntStep == pc = "ants" /\ k' = k + 1

\* C5 as stated: the taboo memory holds exactly the most recently recorded
\* coordinates, up to ant_mem of them (eviction by least recent visit).
C5_EvictsLeastRecentlyRecorded ==
    \A a \in AntIds : Range(ants[a].pos_memory) = Range(recent[a])

\* C5, amended: eviction is first in, first out by insertion.  Recording a
\* coordinate the memory already holds changes nothing; recording another one
\* appends it as the newest entry and, when the memory is full, evicts the
\* entry inserted earliest.
C5_FifoByInsertion ==
    [][AntStep =>
        LET a == k + 1
            here == <<ants[a].row, ants[a].col>>
            before == ants[a].pos_memory
            after == ants'[a].pos_memory
            put == Append(before, here)
        IN  IF here \in Range(before) THEN after = before
            ELSE IF Len(before) < ant_mem THEN after = put
            ELSE after = SubSeq(put, Len(put) - ant_mem + 1, Len(put))
    ]_vars

\* A full memory of two entries that has lost the coordinate recorded second
\* to last: that coordinate was recorded again while present, which did not
\* renew its place, and was evicted by the next insertion.
C5_Witness ==
    \E a \in AntIds :
        /\ ant_mem = 2
        /\ Len(ants[a].pos_memory) = 2
        /\ Len(recent[a]) = 2
        /\ recent[a][1] \notin Range(ants[a].pos_memory)

\* C6: every ant's coordinate is inside the grid in every reachable state.
C6_AntsInBounds ==
    \A a \in AntIds :
        /\ 0 <= ants[a].row /\ ants[a].row < Rows(img)
        /\ 0 <= ants[a].col /\ ants[a].col < Cols(img)

\* Two ants, after a completed iteration, the latest step a random relocation
\* that put its ant on the last column.
C6_Witness ==
    /\ Len(ants) = 2
    /\ i >= 1
    /\ k >= 1
    /\ branch = "relocate_low"
    /\ Cols(img) > 1
    /\ ants[k].col = Cols(img) - 1

\* C7: a consolidation sets every cell's total to
\* max((1 - p) * oldTotal + the sum of the cell's m memory layers as the ant
\* steps left them, tau_min); without ants that is max((1 - p) * oldTotal,
\* tau_min).
C7_Consolidation ==
    [][i' = i + 1 =>
        \A c \in Cells(img) :
            LET evaporated == ((PDen - PNum) * pheromone[c][m]) \div PDen
                deposits == SumSeq([l \in 1..m |-> pheromone[c][l - 1]])
                merged == evaporated + deposits
            IN  /\ pheromone'[c][m] = IF merged >= tau_min THEN merged ELSE tau_min
                /\ ant_count = 0 =>
                       pheromone'[c][m] =
                           IF evaporated >= tau_min THEN evaporated ELSE tau_min
    ]_vars

\* After the second consolidation a cell's total is above tau_min and one of
\* its memory layers still holds a deposit.
C7_Witness ==
    /\ i >= 2
    /\ pc = "head"
    /\ \E c \in Cells(img) :
          /\ pheromone[c][m] > tau_min
          /\ \E l \in 0..(m - 1) : pheromone[c][l] > 0

\* C8: when the candidate weights of an ant's in-bounds neighbours sum to
\* zero, the step counts as "no eligible candidate": the ant is relocated and
\* no pheromone cell is written, that is, the step does not end in the
\* deposit branch.
C8_ZeroSumRelocates ==
    [][(AntStep /\ denominator_at(ants[k + 1].row, ants[k + 1].col) = 0) =>
        (branch' # "deposit" /\ pheromone' = pheromone)
    ]_vars

\* C9: construction never hangs in the placement loop: the loop is never in a
\* state where an ant is still to be placed and every coordinate is taken, so
\* that every draw is rejected.
C9_PlacementNeverStuck ==
    ~(/\ pc = "construct"
      /\ Len(ants) < ant_count
      /\ \A pair \in Cells(img) : pair \in pairs)

\* C10 as stated: a deposit made by an ant changes what a later ant of the
\* same iteration reads to weigh the cell.
C10_LaterAntsSeeDeposits ==
    [][(AntStep /\ k' < Len(ants) /\ pheromone' # pheromone) =>
        \A c \in Cells(img) :
            c = <<ants'[k + 1].row, ants'[k + 1].col>> =>
                index_probability(c)' # index_probability(c)
    ]_vars

\* C10, amended: the ants of an iteration step one after the other in
\* creation order, and a step changes no weight: the weights are read from
\* the total layer, which only the consolidation changes, so a later ant does
\* not see the deposits made earlier in the same iteration.
C10_DepositsInvisibleUntilConsolidation ==
    [][AntStep =>
        /\ \A a \in AntIds : a # k + 1 => ants'[a] = ants[a]
        /\ \A c \in Cells(img) : index_probability(c)' = index_probability(c)
    ]_vars

\* The first of two ants has deposited a positive value in the running
\* iteration, the second is still to step, and the weight of the cell is what
\* the total layer alone gives.
C10_Witness ==
    /\ Len(ants) = 2
    /\ pc = "ants"
    /\ k = 1
    /\ branch = "deposit"
    /\ pheromone[<<ants[1].row, ants[1].col>>][memory_index] > 0
    /\ index_probability(<<ants[1].row, ants[1].col>>) =
           tau_min * intensities[<<ants[1].row, ants[1].col>>]

\* C11: deposits overwrite: in every reachable state each cell of each memory
\* layer is 0 or equal to the intensity of that cell, also after several ants
\* deposited on the same cell in one iteration.
C11_DepositsOverwrite ==
    \A c \in Cells(img) : \A l \in 0..(m - 1) :
        pheromone[c][l] \in {0, intensities[c]}

\* Both ants of the first iteration have deposited on the same cell: ant 1
\* started in the corner (0, 0), whose only neighbour has a positive weight and
\* an intensity above every threshold, ant 2 started at (0, 2), whose two
\* neighbours have such weights and intensities; neither step could relocate.
C11_Witness ==
    /\ pc = "ants" /\ i = 0 /\ k = 2 /\ Len(ants) = 2 /\ branch = "deposit"
    /\ Rows(img) = 1 /\ Cols(img) = 5
    /\ ants[1].pos_memory = << <<0, 0>> >>
    /\ ants[2].pos_memory = << <<0, 2>> >>
    /\ ants[1].row = ants[2].row /\ ants[1].col = ants[2].col
    /\ LET c == <<ants[1].row, ants[1].col>>
       IN  intensities[c] > 0 /\ pheromone[c][memory_index] = intensities[c]

\* The memory layer the ants of the latest completed iteration deposited into.
JustWritten == (memory_index + m - 1) % m

\* C13 (as stated): right after a consolidation the memory layer the ants
\* just wrote is zero at every cell.
C13_JustWrittenLayerCleared ==
    (pc = "head" /\ i >= 1) =>
        \A c \in Cells(img) : pheromone[c][JustWritten] = 0

\* C13 (amended): a consolidation advances the index, sets every total from
\* the old total and all memory layers as they were, zeroes the layer at the
\* advanced index and keeps every other memory layer, the one just written
\* included.
C13_ZeroesAdvancedIndex ==
    [][i' = i + 1 =>
        /\ memory_index' = (memory_index + 1) % m
        /\ \A c \in Cells(img) :
              /\ pheromone'[c][memory_index'] = 0
              /\ \A l \in 0..(m - 1) :
                    l # memory_index' => pheromone'[c][l] = pheromone[c][l]
              /\ pheromone'[c][m] =
                    MaxOf({Evaporate(pheromone[c][m])
                             + SumSeq([l \in 1..m |-> pheromone[c][l - 1]]),
                           tau_min})]_vars

\* Two memory layers, two iterations done: a cell received a deposit in the
\* first iteration only, and both consolidations added it to the total.
C13_Witness ==
    /\ pc = "head" /\ i = 2 /\ m = 2
    /\ \E c \in Cells(img) :
          /\ intensities[c] > 0
          /\ pheromone[c][0] = 0 /\ pheromone[c][1] = 0
          /\ pheromone[c][m] =
                Evaporate(Evaporate(tau_min) + intensities[c]) + intensities[c]

\* The in-bounds neighbours of (row, col) that are not in the memory.
FreeNeighbours(row, col, memory) ==
    {q \in {<<row + d[1], col + d[2]>> : d \in Range(directions)} :
        InBounds(q[1], q[2]) /\ q \notin Range(memory)}

\* C14: when the weight sum of the ant that steps next is not zero, then for
\* every order of the sample the selected candidate has the highest weight
\* among the in-bounds neighbours outside the taboo memory: none of them has a
\* strictly higher weight.
C14_SelectsHighestFree ==
    (pc = "ants" /\ k < Len(ants)) =>
        LET row == ants[k + 1].row
            col == ants[k + 1].col
            memory == update_memory(ants[k + 1].pos_memory, row, col)
        IN  denominator_at(row, col) # 0 =>
                \A sample \in random_sample(row, col) :
                    LET pos == get_max_probability_pos(row, col, memory, sample)
                    IN  pos # None =>
                            \A q \in FreeNeighbours(row, col, memory) :
                                index_probability(q) <= index_probability(pos)

\* C15: a step whose weight sum is not zero ends in the branch "no eligible
\* candidate" only if no in-bounds neighbour of the ant is outside its taboo
\* memory.
C15_NoCandidateOnlyWhenAllTaboo ==
    [][(AntStep /\ branch' = "relocate_none"
          /\ denominator_at(ants[k + 1].row, ants[k + 1].col) # 0) =>
            FreeNeighbours(ants[k + 1].row, ants[k + 1].col,
                update_memory(ants[k + 1].pos_memory,
                              ants[k + 1].row, ants[k + 1].col)) = {}]_vars

\* The latest step was a neighbour move of ant k, whose memory holds at least
\* two coordinates.
MovedToNeighbour == pc = "ants" /\ k >= 1 /\ branch = "deposit" /\ ant_mem >= 2

\* The coordinate the ant of the latest step has left.
LeftBy(a) == recent[a][Len(recent[a])]

\* The taboo memory of ant a during the selection of its next step.
NextSelectionMemory(a) ==
    update_memory(ants[a].pos_memory, ants[a].row, ants[a].col)

\* C16 (as stated): after a neighbour move from X to Y of an ant with
\* ant_mem >= 2, X is in the taboo memory during the selection of the ant's
\* next step, whatever the history of the ant.
C16_NoImmediateBacktracking ==
    MovedToNeighbour => LeftBy(k) \in Range(NextSelectionMemory(k))

\* C16 (amended): after such a move X is in the taboo memory of the next
\* selection unless X was the oldest entry of a full memory when the ant left
\* it; in that case recording Y evicts X.
C16_BacktrackingUnlessOldest ==
    MovedToNeighbour =>
        (LeftBy(k) \notin Range(NextSelectionMemory(k))
            <=> (Len(ants[k].pos_memory) = ant_mem
                    /\ ants[k].pos_memory[1] = LeftBy(k)))

\* An ant has moved to a neighbour from a coordinate that is the oldest entry
\* of its full memory: it was relocated onto a coordinate it had recorded.
C16_Witness ==
    /\ MovedToNeighbour
    /\ Len(ants[k].pos_memory) = ant_mem
    /\ ants[k].pos_memory[1] = LeftBy(k)
    /\ LeftBy(k) \in FreeNeighbours(ants[k].row, ants[k].col, NextSelectionMemory(k))

\* The cells whose value in the given layer is changed by the step.
Written(layer) ==
    {c \in Cells(img) : pheromone'[c][layer] # pheromone[c][layer]}

\* C17: a step of an ant changes, besides the position and the taboo memory of
\* that ant, at most one pheromone cell, and that cell is in the memory layer at
\* memory_index; the total layer, the other memory layers, the intensities,
\* memory_index and the other ants stay as they are; a step that ends in a
\* relocation leaves the whole pheromone grid as it is.
C17_StepFrame ==
    [][AntStep =>
        /\ img' = img /\ intensities' = intensities
        /\ memory_index' = memory_index
        /\ Len(ants') = Len(ants)
        /\ \A a \in AntIds : a # k + 1 => ants'[a] = ants[a]
        /\ \A l \in 0..m : l # memory_index => Written(l) = {}
        /\ Cardinality(Written(memory_index)) <= 1
        /\ branch' \in {"relocate_none", "relocate_low"} => pheromone' = pheromone]_vars

\* The first of two ants has moved and deposited: one cell of the memory
\* layer at memory_index holds a deposit, the second ant has not stepped yet.
C17_Witness ==
    /\ pc = "ants" /\ i = 0 /\ k = 1 /\ Len(ants) = 2 /\ branch = "deposit"
    /\ ants[1].pos_memory # <<>> /\ ants[2].pos_memory = <<>>
    /\ Cardinality({c \in Cells(img) : pheromone[c][memory_index] # 0}) = 1
    /\ pheromone[<<ants[1].row, ants[1].col>>][memory_index] # 0

\* The total layer or memory_index changes: what a consolidation does.
Consolidates ==
    \/ memory_index' # memory_index
    \/ \E c \in Cells(img) : pheromone'[c][m] # pheromone[c][m]

\* The order of the steps of iterate() as seen in one step of the colony.
IterationOrder ==
    /\ (pc = "ants" /\ ants' # ants) =>
          /\ k < Len(ants) /\ k' = k + 1
          /\ \A a \in AntIds : a # k + 1 => ants'[a] = ants[a]
    /\ k' # k => (AntStep \/ (pc = "head" /\ pc' = "ants" /\ k' = 0))
    /\ Consolidates => i' = i + 1
    /\ i' # i =>
          /\ i' = i + 1
          /\ pc = "ants" /\ k = Len(ants)
          /\ pc' = "head" /\ memory_index' = (memory_index + 1) % m
    /\ (pc = "ants" /\ pc' # "ants") => i' = i + 1
    /\ (pc = "head" /\ pc' = "ants") => (k' = 0 /\ i < iterations)

\* C18: in an iteration the ants step one by one in creation order, each
\* once; the consolidation comes after the step of the last ant and before the
\* first step of the next iteration, once; when the run of N iterations is
\* over, N consolidations have been made.
C18_OneStepEachThenConsolidate ==
    [][IterationOrder]_vars /\ [](pc = "done" => i = iterations)

\* A run of two iterations with two ants is over.
C18_Witness ==
    pc = "done" /\ iterations = 2 /\ Len(ants) = 2 /\ i = 2 /\ k = 2

\* C19: when the iteration numbered i (from 1) with i mod 10 = 0 is completed,
\* i / 10 snapshots have been exported, the latest is the one of iteration i,
\* and it shows the total layer as it is now, after the ant steps and the
\* consolidation of that iteration; no other iteration exports.
C19_SnapshotAfterIteration ==
    /\ Len(snapshots) <= i \div SnapshotPeriod + 1
    /\ \A j \in 1..Len(snapshots) : snapshots[j].iteration = j * SnapshotPeriod
    /\ (pc = "head" /\ i > 0 /\ i % SnapshotPeriod = 0) =>
          /\ Len(snapshots) = i \div SnapshotPeriod
          /\ snapshots[Len(snapshots)] = generate_pheromone_image(i)

\* The absolute difference of the samples at two cells, 0 when one of the two
\* is outside the grid.
Contribution(im, p, q) ==
    IF p \in Cells(im) /\ q \in Cells(im)
    THEN Abs(Pixel(im, p[1], p[2]) - Pixel(im, q[1], q[2]))
    ELSE 0

\* The pairs of opposite neighbours of (row, col): the two diagonals, the
\* horizontal and the vertical pair.
OppositePairs(row, col) ==
    { << <<row - 1, col - 1>>, <<row + 1, col + 1>> >>,
      << <<row - 1, col + 1>>, <<row + 1, col - 1>> >>,
      << <<row, col - 1>>, <<row, col + 1>> >>,
      << <<row - 1, col>>, <<row + 1, col>> >> }

\* C20: the intensity of every pixel of a grid with i_max > 0 is 1 / i_max
\* times the largest of the four contributions of its pairs of opposite
\* neighbours, a pair with an endpoint outside the grid contributing 0, and
\* lies in [0, 1].
C20_IntensityIsMaxContribution ==
    pc = "built" =>
        LET unit == Scale \div i_max(img)
        IN  \A c \in Cells(img) :
                /\ intensities[c] =
                      unit * MaxOf({Contribution(img, pq[1], pq[2]) :
                                       pq \in OppositePairs(c[1], c[2])})
                /\ intensities[c] >= 0 /\ intensities[c] <= Scale

\* A grid of three rows and columns whose centre has the intensity 1, and
\* whose top middle pixel has the intensity 0 although the samples above and
\* below it would differ if the row above the first were the last one.
C20_Witness ==
    /\ pc = "built" /\ Rows(img) = 3 /\ Cols(img) = 3
    /\ intensities[<<1, 1>>] = Scale
    /\ intensities[<<0, 1>>] = 0
    /\ Pixel(img, 2, 1) # Pixel(img, 1, 1)
====
